---- MODULE Spec2Model ----
(***************************************************************************)
(* Whitepaper categorizer (src/app.py): the record store, the file stage,  *)
(* the classifier's reply parsing and the upload / delete request          *)
(* handlers of index().                                                    *)
(*                                                                         *)
(* Text is modelled as a sequence of atoms.  In a plain string an atom is  *)
(* either the whitespace atom " " or an opaque run of non-blank            *)
(* characters.  A model reply is a sequence of lexical tokens: the braces, *)
(* the comma, whitespace, a prose word, a JSON scalar that is no string, a *)
(* key with its colon ("key":), or a whole member with a string or null    *)
(* value ("key": "value").                                                 *)
(***************************************************************************)
EXTENDS Integers, Sequences, FiniteSets, TLC

VARIABLES store, disk, now, nextId, req, calls, saved, deleted

vars == <<store, disk, now, nextId, req, calls, saved, deleted>>

(***************************************************************************)
(* Bounds of the model.                                                    *)
(***************************************************************************)
MaxId == 2
MaxTime == 2
TicksPerSecond == 2
MaxReplyLen == 5

(***************************************************************************)
(* Configuration (src/app.py lines 34-40).                                 *)
(***************************************************************************)
INDUSTRIES ==
    { <<"Banking">>, <<"Insurance">>, <<"Asset Management">>, <<"Hedge Funds">>,
      <<"Pension Funds">>, <<"Energy">>, <<"Technology">>, <<"Healthcare">>,
      <<"Industrials">>, <<"Consumer">>, <<"Real Estate">>, <<"Telecom">>,
      <<"Utilities">>, <<"Other">> }

MAIN_CATEGORIES == { <<"Retail">>, <<"Institutional">>, <<"Nondescript">> }

(***************************************************************************)
(* str.strip(): drop the leading and the trailing whitespace atoms.        *)
(***************************************************************************)
RECURSIVE LStripOf(_, _)
LStripOf(s, sp) ==
    IF s # <<>> /\ Head(s) = sp THEN LStripOf(Tail(s), sp) ELSE s

RECURSIVE RStripOf(_, _)
RStripOf(s, sp) ==
    IF s # <<>> /\ s[Len(s)] = sp THEN RStripOf(SubSeq(s, 1, Len(s) - 1), sp) ELSE s

\* A strip() that trims nothing.
StripNoop(s, sp) == s

StripOf(s, sp) == RStripOf(LStripOf(s, sp), sp)

Strip(s) == StripOf(s, " ")

(***************************************************************************)
(* JSON values of an object member: a string, or null (standing for every  *)
(* scalar that is not a string).                                           *)
(***************************************************************************)
JStr(s) == [type |-> "str", s |-> s]
JNull == [type |-> "null", s |-> <<>>]

(***************************************************************************)
(* Tokens of a model reply.                                                *)
(***************************************************************************)
Tok(k) == [kind |-> k, key |-> "", val |-> JNull]
LBrace == Tok("{")
RBrace == Tok("}")
Comma == Tok(",")
WsTok == Tok(" ")
Word == Tok("word")
Scalar == Tok("scalar")
Key(k) == [kind |-> "key", key |-> k, val |-> JNull]
Member(k, v) == [kind |-> "member", key |-> k, val |-> v]

(***************************************************************************)
(* str.find / str.rfind of a one-character pattern: 0-based, -1 if absent. *)
(***************************************************************************)
Find(s, c) ==
    IF \E i \in 1..Len(s) : s[i] = c
    THEN (CHOOSE i \in 1..Len(s) : s[i] = c /\ \A j \in 1..(i - 1) : s[j] # c) - 1
    ELSE -1

RFind(s, c) ==
    IF \E i \in 1..Len(s) : s[i] = c
    THEN (CHOOSE i \in 1..Len(s) : s[i] = c /\ \A j \in (i + 1)..Len(s) : s[j] # c) - 1
    ELSE -1

(***************************************************************************)
(* json.loads on a token sequence.  Whitespace between tokens is           *)
(* insignificant.  The text is a JSON document iff it is one scalar or one *)
(* object:                                                                 *)
(*     object ::= "{" [ pair ("," pair)* ] "}"                             *)
(*     pair   ::= member | key value                                       *)
(*     value  ::= scalar | object                                          *)
(* ObjEnd(t, i) is the index after the object that starts at t[i], or 0 if *)
(* no object starts there; PairsEnd(t, i) the index after the "}" that     *)
(* closes the pair list starting at t[i], or 0.                            *)
(***************************************************************************)
NoWs(s) == SelectSeq(s, LAMBDA t : t # WsTok)

RECURSIVE ObjEnd(_, _)
RECURSIVE PairsEnd(_, _)

ValueEnd(t, i) ==
    IF i > Len(t) THEN 0
    ELSE IF t[i].kind = "scalar" THEN i + 1
    ELSE ObjEnd(t, i)

PairEnd(t, i) ==
    IF i > Len(t) THEN 0
    ELSE IF t[i].kind = "member" THEN i + 1
    ELSE IF t[i].kind = "key" THEN ValueEnd(t, i + 1)
    ELSE 0

PairsEnd(t, i) ==
    LET p == PairEnd(t, i)
    IN  IF p = 0 \/ p > Len(t) THEN 0
        ELSE IF t[p].kind = "}" THEN p + 1
        ELSE IF t[p].kind = "," THEN PairsEnd(t, p + 1)
        ELSE 0

ObjEnd(t, i) ==
    IF i + 1 > Len(t) \/ t[i].kind # "{" THEN 0
    ELSE IF t[i + 1].kind = "}" THEN i + 2
    ELSE PairsEnd(t, i + 1)

(***************************************************************************)
(* The pairs of the outermost object of a valid document, in order; the    *)
(* value of a key whose value is a scalar or an object is not a string.    *)
(***************************************************************************)
RECURSIVE TopPairs(_, _)
TopPairs(t, i) ==
    IF t[i].kind = "}" THEN <<>>
    ELSE IF t[i].kind = "," THEN TopPairs(t, i + 1)
    ELSE IF t[i].kind = "member"
    THEN <<[key |-> t[i].key, val |-> t[i].val]>> \o TopPairs(t, i + 1)
    ELSE <<[key |-> t[i].key, val |-> [type |-> "other", s |-> <<>>]]>>
         \o TopPairs(t, ValueEnd(t, i + 1))

JsonLoads(s) ==
    LET t == NoWs(s)
    IN  IF Len(t) = 1 /\ t[1].kind = "scalar"
        THEN [ok |-> TRUE, isDict |-> FALSE, members |-> <<>>]
        ELSE IF ObjEnd(t, 1) = Len(t) + 1
        THEN [ok |-> TRUE, isDict |-> TRUE, members |-> TopPairs(t, 2)]
        ELSE [ok |-> FALSE, isDict |-> FALSE, members |-> <<>>]

(***************************************************************************)
(* dict.get(key, default): a duplicated key keeps its last value.          *)
(***************************************************************************)
DictGet(members, key, default) ==
    LET hits == SelectSeq(members, LAMBDA m : m.key = key)
    IN  IF hits = <<>> THEN JStr(default) ELSE hits[Len(hits)].val

\* The brace slice cut at the first "}" (find where the code has rfind).
JsonStrFirstClose(content) ==
    LET first_brace == Find(content, LBrace)
        last_brace == Find(content, RBrace)
    IN  IF first_brace # -1 /\ last_brace # -1 /\ last_brace > first_brace
        THEN SubSeq(content, first_brace + 1, last_brace + 1)
        ELSE content

(***************************************************************************)
(* The brace slice of classify (lines 638-642).                            *)
(***************************************************************************)
JsonStr(content) ==
    LET first_brace == Find(content, LBrace)
        last_brace == RFind(content, RBrace)
    IN  IF first_brace # -1 /\ last_brace # -1 /\ last_brace > first_brace
        THEN SubSeq(content, first_brace + 1, last_brace + 1)
        ELSE content

(***************************************************************************)
(* Coercion to the closed sets (lines 659-665).                            *)
(***************************************************************************)
\* The audience taken over uncoerced.
MainCategoryRaw(audience) == audience

MainCategoryOf(audience) ==
    IF audience \notin MAIN_CATEGORIES THEN <<"Nondescript">> ELSE audience

IndustryOf(industry) ==
    IF industry \notin INDUSTRIES THEN <<"Other">> ELSE industry

(***************************************************************************)
(* classify, from the reply on (lines 635-675).  exc is "none" on return,  *)
(* "ValueError" for the format error raised at lines 647-652 (raw carries  *)
(* the reply text), "AttributeError" when .get or .strip is applied to a   *)
(* value that has no such method.                                          *)
(***************************************************************************)
NoResult ==
    [title |-> <<>>, main_category |-> <<>>, industry |-> <<>>,
     short_summary |-> <<>>, audience |-> <<>>]

Raise(e, content, json_str) ==
    [exc |-> e, raw |-> content, json_str |-> json_str, result |-> NoResult]

StringKeys == <<"title", "audience", "industry", "short_summary", "audience_rationale">>

KeyDefault(k) ==
    CASE k = "title" -> <<"Untitled">>
      [] k = "audience" -> <<"Nondescript">>
      [] k = "industry" -> <<"Other">>
      [] OTHER -> <<>>

ClassifyReply(reply) ==
    LET content == StripOf(reply, WsTok)
        json_str == JsonStr(content)
        data == JsonLoads(json_str)
        field(k) == DictGet(data.members, k, KeyDefault(k))
    IN  IF ~data.ok THEN Raise("ValueError", content, json_str)
        ELSE IF ~data.isDict THEN Raise("AttributeError", <<>>, json_str)
        ELSE IF \E i \in 1..Len(StringKeys) : field(StringKeys[i]).type # "str"
        THEN Raise("AttributeError", <<>>, json_str)
        ELSE [exc |-> "none", raw |-> <<>>, json_str |-> json_str,
              result |->
                [title |-> Strip(field("title").s),
                 main_category |-> MainCategoryOf(Strip(field("audience").s)),
                 industry |-> IndustryOf(Strip(field("industry").s)),
                 short_summary |-> Strip(field("short_summary").s),
                 audience |-> Strip(field("audience").s)]]

(***************************************************************************)
(* State.                                                                  *)
(*   store   the rows of table whitepapers                                 *)
(*   disk    the paths of the files under the uploads directory            *)
(*   now     the clock, in ticks                                           *)
(*   nextId  the next AUTOINCREMENT id                                     *)
(*   req     per request: its position in index() and its locals           *)
(*   calls   per request: the external operations it has performed         *)
(*   saved   per request: the ids of the rows it has inserted              *)
(*   deleted the ids whose row a DELETE statement has removed              *)
(***************************************************************************)
\* Spec serves the requests of one client, one after the other.
Clients == {1}
Requests == DOMAIN req

NoPath == [ts |-> -1, name |-> <<>>]
NoRow == [found |-> FALSE, file_path |-> NoPath]
NoSource == [tag |-> "", name |-> <<>>]
NoMessage == [text |-> "", exc |-> "", raw |-> <<>>]
NoForm ==
    [api_key |-> <<>>, pdf_file |-> [present |-> FALSE, filename |-> <<>>],
     pdf_url |-> <<>>, delete_id |-> [isInt |-> TRUE, n |-> 0]]
NoOut == [exc |-> "", raw |-> <<>>, json_str |-> <<>>, result |-> NoResult]

IdleReq ==
    [pc |-> "idle", action |-> "", form |-> NoForm, file_path |-> NoPath,
     source |-> NoSource, text |-> <<>>, reply |-> <<>>, out |-> NoOut,
     message |-> NoMessage, error |-> FALSE, row |-> NoRow, rm |-> ""]

(***************************************************************************)
(* Inputs of the requests.                                                 *)
(***************************************************************************)
ApiKeys == { <<>>, <<" ">>, <<" ", "sk-1", " ">> }
PdfFiles ==
    { [present |-> FALSE, filename |-> <<>>],
      [present |-> TRUE, filename |-> <<>>],
      [present |-> TRUE, filename |-> <<"..", "/", "a.pdf">>] }
PdfUrls == { <<>>, <<" ">>, <<"http://x/a.pdf">> }
Texts == { <<>>, <<" ">>, <<"words">> }
DeleteIds ==
    { [isInt |-> TRUE, n |-> i] : i \in 0..MaxId } \cup { [isInt |-> FALSE, n |-> 0] }

(***************************************************************************)
(* The replies the model may give in a request: objects with every field,  *)
(* with padded, unknown, missing and null fields, with prose around them,  *)
(* and replies that are no object at all.                                  *)
(***************************************************************************)
Obj(ms) ==
    <<LBrace>> \o [i \in 1..(2 * Len(ms) - 1) |->
                     IF i % 2 = 1 THEN ms[(i + 1) \div 2] ELSE Comma] \o <<RBrace>>

Title == Member("title", JStr(<<"T">>))
Summary == Member("short_summary", JStr(<<"s">>))

Bodies ==
    { Obj(<<Title, Member("audience", JStr(<<"Retail">>)),
            Member("industry", JStr(<<"Energy">>)), Summary>>),
      Obj(<<Title, Member("audience", JStr(<<" ", "Retail", " ">>)),
            Member("industry", JStr(<<" ", "Energy">>)), Summary>>),
      Obj(<<Title, Member("audience", JStr(<<"Professional">>)),
            Member("industry", JStr(<<"Crypto">>)), Summary>>),
      Obj(<<Title, Summary>>),
      Obj(<<Title, Member("audience", JNull),
            Member("industry", JStr(<<"Energy">>)), Summary>>) }

Plain == Obj(<<Title, Member("audience", JStr(<<"Retail">>)),
               Member("industry", JStr(<<"Energy">>)), Summary>>)

ModelReplies ==
    Bodies
    \cup { <<WsTok, Word, WsTok>> \o Plain \o <<WsTok, Word>>,
           <<Word, LBrace, Word, RBrace, WsTok>> \o Plain,
           <<>>, <<Word, WsTok, Word>>, <<Scalar>> }

(***************************************************************************)
(* werkzeug's secure_filename (line 715): path separators and dot segments *)
(* do not survive.                                                         *)
(***************************************************************************)
SecureFilename(filename) == SelectSeq(filename, LAMBDA a : a \notin {"/", ".."})

(***************************************************************************)
(* int(time.time()) (line 716) and datetime.utcnow().isoformat() (line     *)
(* 520): the clock in whole seconds, and at full resolution.               *)
(***************************************************************************)
UnixTime == now \div TicksPerSecond
UtcNowIso == now

(***************************************************************************)
(* bool(FileStorage) is bool(filename).                                    *)
(***************************************************************************)
Truthy(pdf_file) == pdf_file.present /\ pdf_file.filename # <<>>

Ids == { w.id : w \in store }

InFlight == { r \in Requests : req[r].action = "upload" /\ req[r].pc \notin {"done", "failed"} }

Init ==
    /\ store = {}
    /\ disk = {}
    /\ now = 0
    /\ nextId = 1
    /\ req = [r \in Clients |-> IdleReq]
    /\ calls = [r \in Clients |-> {}]
    /\ saved = [r \in Clients |-> {}]
    /\ deleted = {}

Tick ==
    /\ now < MaxTime
    /\ now' = now + 1
    /\ UNCHANGED <<store, disk, nextId, req, calls, saved, deleted>>

Fail(r, text, exc, raw) ==
    [req EXCEPT ![r].pc = "failed",
                ![r].message = [text |-> text, exc |-> exc, raw |-> raw],
                ![r].error = TRUE]

Did(r, what) == [calls EXCEPT ![r] = @ \cup {what}]

(***************************************************************************)
(* POST / with action=upload: the form is read (lines 701-703).            *)
(***************************************************************************)
SubmitUpload(r) ==
    /\ req[r].pc = "idle"
    /\ nextId + Cardinality(InFlight) <= MaxId
    /\ \E k \in ApiKeys, f \in PdfFiles, u \in PdfUrls :
         req' = [req EXCEPT ![r].pc = "validate", ![r].action = "upload",
                            ![r].form = [NoForm EXCEPT !.api_key = k, !.pdf_file = f,
                                                       !.pdf_url = u]]
    /\ UNCHANGED <<store, disk, now, nextId, calls, saved, deleted>>

ApiKey(r) == Strip(req[r].form.api_key)
PdfUrl(r) == Strip(req[r].form.pdf_url)
PdfFile(r) == req[r].form.pdf_file

\* The entry guard without the test for a missing input.
ValidateKeyOnly(r) ==
    /\ req[r].pc = "validate"
    /\ req' =
         IF ApiKey(r) = <<>>
         THEN Fail(r, "OpenAI API key is required.", "", <<>>)
         ELSE IF Truthy(PdfFile(r))
         THEN [req EXCEPT ![r].pc = "stage"]
         ELSE [req EXCEPT ![r].pc = "fetch"]
    /\ UNCHANGED <<store, disk, now, nextId, calls, saved, deleted>>

(***************************************************************************)
(* The entry guard (lines 705-713).                                        *)
(***************************************************************************)
Validate(r) ==
    /\ req[r].pc = "validate"
    /\ req' =
         IF ApiKey(r) = <<>>
         THEN Fail(r, "OpenAI API key is required.", "", <<>>)
         ELSE IF ~Truthy(PdfFile(r)) /\ PdfUrl(r) = <<>>
         THEN Fail(r, "Please upload a PDF file or provide a PDF URL.", "", <<>>)
         ELSE IF Truthy(PdfFile(r))
         THEN [req EXCEPT ![r].pc = "stage"]
         ELSE [req EXCEPT ![r].pc = "fetch"]
    /\ UNCHANGED <<store, disk, now, nextId, calls, saved, deleted>>

(***************************************************************************)
(* The file branch (lines 714-721): the file is saved under                *)
(* uploads/<unix time>_<safe name> and read back.                          *)
(***************************************************************************)
Stage(r) ==
    /\ req[r].pc = "stage"
    /\ LET safe_name == SecureFilename(PdfFile(r).filename)
           file_path == [ts |-> UnixTime, name |-> safe_name]
       IN  /\ disk' = disk \cup {file_path}
           /\ req' = [req EXCEPT ![r].pc = "extract", ![r].file_path = file_path,
                                 ![r].source = [tag |-> "File", name |-> PdfFile(r).filename]]
    /\ calls' = Did(r, "stage")
    /\ UNCHANGED <<store, now, nextId, saved, deleted>>

(***************************************************************************)
(* The URL branch (lines 723-726): requests.get and raise_for_status.      *)
(***************************************************************************)
Fetch(r) ==
    /\ req[r].pc = "fetch"
    /\ \E status \in {"ok", "HTTPError", "ConnectionError"} :
         req' =
           IF status = "ok"
           THEN [req EXCEPT ![r].pc = "extract",
                            ![r].source = [tag |-> "URL", name |-> PdfUrl(r)]]
           ELSE [Fail(r, "Error: ", status, <<>>)
                   EXCEPT ![r].source = [tag |-> "URL", name |-> PdfUrl(r)]]
    /\ calls' = Did(r, "fetch")
    /\ UNCHANGED <<store, disk, now, nextId, saved, deleted>>

\* The blank-text test without strip().
ExtractNoStrip(r) ==
    /\ req[r].pc = "extract"
    /\ \/ req' = Fail(r, "Error: ", "PDFSyntaxError", <<>>)
       \/ \E text \in Texts :
            req' =
              IF text = <<>>
              THEN [Fail(r, "Could not extract any text from the PDF.", "", <<>>)
                      EXCEPT ![r].text = text]
              ELSE [req EXCEPT ![r].pc = "classify", ![r].text = text]
    /\ calls' = Did(r, "extract")
    /\ UNCHANGED <<store, disk, now, nextId, saved, deleted>>

(***************************************************************************)
(* extract_text and the blank-text test (lines 728-731).                   *)
(***************************************************************************)
Extract(r) ==
    /\ req[r].pc = "extract"
    /\ \/ req' = Fail(r, "Error: ", "PDFSyntaxError", <<>>)
       \/ \E text \in Texts :
            req' =
              IF Strip(text) = <<>>
              THEN [Fail(r, "Could not extract any text from the PDF.", "", <<>>)
                      EXCEPT ![r].text = text]
              ELSE [req EXCEPT ![r].pc = "classify", ![r].text = text]
    /\ calls' = Did(r, "extract")
    /\ UNCHANGED <<store, disk, now, nextId, saved, deleted>>

(***************************************************************************)
(* classify: the chat completion call (lines 571-633) raises or replies.   *)
(***************************************************************************)
CallModel(r) ==
    /\ req[r].pc = "classify"
    /\ \/ req' = Fail(r, "Error: ", "APIError", <<>>)
       \/ \E reply \in ModelReplies :
            req' = [req EXCEPT ![r].pc = "parse", ![r].reply = reply]
    /\ calls' = Did(r, "classify")
    /\ UNCHANGED <<store, disk, now, nextId, saved, deleted>>

\* A parse whose exception is swallowed: the request goes on to persist.
ParseReplyContinue(r) ==
    /\ req[r].pc = "parse"
    /\ req' = [req EXCEPT ![r].pc = "persist", ![r].out = ClassifyReply(req[r].reply)]
    /\ UNCHANGED <<store, disk, now, nextId, calls, saved, deleted>>

(***************************************************************************)
(* classify: the reply is parsed (lines 635-675); an exception reaches the *)
(* handler of line 743.                                                    *)
(***************************************************************************)
ParseReply(r) ==
    /\ req[r].pc = "parse"
    /\ LET out == ClassifyReply(req[r].reply)
       IN  req' =
             IF out.exc = "none"
             THEN [req EXCEPT ![r].pc = "persist", ![r].out = out]
             ELSE [Fail(r, "Error: ", out.exc, out.raw) EXCEPT ![r].out = out]
    /\ UNCHANGED <<store, disk, now, nextId, calls, saved, deleted>>

\* save_whitepaper called without its file_path argument.
SaveWhitepaperNoPath(r) ==
    /\ req[r].pc = "persist"
    /\ LET result == req[r].out.result
       IN  store' = store \cup
             { [id |-> nextId, title |-> result.title, source |-> req[r].source,
                main_category |-> result.main_category, industry |-> result.industry,
                short_summary |-> result.short_summary,
                file_path |-> NoPath, created_at |-> UtcNowIso] }
    /\ nextId' = nextId + 1
    /\ saved' = [saved EXCEPT ![r] = @ \cup {nextId}]
    /\ calls' = Did(r, "save")
    /\ req' = [req EXCEPT ![r].pc = "done"]
    /\ UNCHANGED <<disk, now, deleted>>

(***************************************************************************)
(* save_whitepaper (lines 514-522, called at 734-741), then the redirect.  *)
(***************************************************************************)
SaveWhitepaper(r) ==
    /\ req[r].pc = "persist"
    /\ LET result == req[r].out.result
       IN  store' = store \cup
             { [id |-> nextId, title |-> result.title, source |-> req[r].source,
                main_category |-> result.main_category, industry |-> result.industry,
                short_summary |-> result.short_summary,
                file_path |-> req[r].file_path, created_at |-> UtcNowIso] }
    /\ nextId' = nextId + 1
    /\ saved' = [saved EXCEPT ![r] = @ \cup {nextId}]
    /\ calls' = Did(r, "save")
    /\ req' = [req EXCEPT ![r].pc = "done"]
    /\ UNCHANGED <<disk, now, deleted>>

(***************************************************************************)
(* POST / with action=delete (lines 688-698): int(delete_id).              *)
(***************************************************************************)
SubmitDelete(r) ==
    /\ req[r].pc = "idle"
    /\ \E d \in DeleteIds :
         req' =
           IF d.isInt
           THEN [req EXCEPT ![r].pc = "del_select", ![r].action = "delete",
                            ![r].form = [NoForm EXCEPT !.delete_id = d]]
           ELSE [Fail(r, "Error deleting whitepaper: ", "ValueError", <<>>)
                   EXCEPT ![r].action = "delete",
                          ![r].form = [NoForm EXCEPT !.delete_id = d]]
    /\ UNCHANGED <<store, disk, now, nextId, calls, saved, deleted>>

DeleteId(r) == req[r].form.delete_id.n

(***************************************************************************)
(* delete_whitepaper (lines 524-538).                                      *)
(***************************************************************************)
DelSelect(r) ==
    /\ req[r].pc = "del_select"
    /\ LET rows == { w \in store : w.id = DeleteId(r) }
           row == IF rows = {} THEN NoRow
                  ELSE [found |-> TRUE, file_path |-> (CHOOSE w \in rows : TRUE).file_path]
       IN  req' = [req EXCEPT ![r].row = row,
                              ![r].pc = IF row.found /\ row.file_path # NoPath
                                        THEN "del_isfile" ELSE "del_row"]
    /\ UNCHANGED <<store, disk, now, nextId, calls, saved, deleted>>

DelIsFile(r) ==
    /\ req[r].pc = "del_isfile"
    /\ req' = IF req[r].row.file_path \in disk
              THEN [req EXCEPT ![r].pc = "del_remove"]
              ELSE [req EXCEPT ![r].pc = "del_row", ![r].rm = "missing"]
    /\ UNCHANGED <<store, disk, now, nextId, calls, saved, deleted>>

\* os.remove whose OSError is not caught.
DelRemoveRaises(r) ==
    /\ req[r].pc = "del_remove"
    /\ \/ /\ req[r].row.file_path \in disk
          /\ disk' = disk \ {req[r].row.file_path}
          /\ req' = [req EXCEPT ![r].pc = "del_row", ![r].rm = "removed"]
       \/ /\ disk' = disk
          /\ req' = [Fail(r, "Error deleting whitepaper: ", "OSError", <<>>)
                       EXCEPT ![r].rm = "OSError"]
    /\ UNCHANGED <<store, now, nextId, calls, saved, deleted>>

DelRemove(r) ==
    /\ req[r].pc = "del_remove"
    /\ \/ /\ req[r].row.file_path \in disk
          /\ disk' = disk \ {req[r].row.file_path}
          /\ req' = [req EXCEPT ![r].pc = "del_row", ![r].rm = "removed"]
       \/ /\ disk' = disk
          /\ req' = [req EXCEPT ![r].pc = "del_row", ![r].rm = "OSError"]
    /\ UNCHANGED <<store, now, nextId, calls, saved, deleted>>

\* A DELETE without its WHERE clause.
DelRowAll(r) ==
    /\ req[r].pc = "del_row"
    /\ store' = {}
    /\ deleted' = deleted \cup (Ids \cap {DeleteId(r)})
    /\ req' = [req EXCEPT ![r].pc = "done"]
    /\ UNCHANGED <<disk, now, nextId, calls, saved>>

DelRow(r) ==
    /\ req[r].pc = "del_row"
    /\ store' = { w \in store : w.id # DeleteId(r) }
    /\ deleted' = deleted \cup (Ids \cap {DeleteId(r)})
    /\ req' = [req EXCEPT ![r].pc = "done"]
    /\ UNCHANGED <<disk, now, nextId, calls, saved>>

(***************************************************************************)
(* The response is sent: the request is over.                              *)
(***************************************************************************)
Respond(r) ==
    /\ req[r].pc \in {"done", "failed"}
    /\ req' = [req EXCEPT ![r] = IdleReq]
    /\ calls' = [calls EXCEPT ![r] = {}]
    /\ saved' = [saved EXCEPT ![r] = {}]
    /\ UNCHANGED <<store, disk, now, nextId, deleted>>

Next ==
    \/ Tick
    \/ \E r \in Clients :
         \/ SubmitUpload(r)
         \/ Validate(r)
         \/ Stage(r)
         \/ Fetch(r)
         \/ Extract(r)
         \/ CallModel(r)
         \/ ParseReply(r)
         \/ SaveWhitepaper(r)
         \/ SubmitDelete(r)
         \/ DelSelect(r)
         \/ DelIsFile(r)
         \/ DelRemove(r)
         \/ DelRow(r)
         \/ Respond(r)

Spec == Init /\ [][Next]_vars

(***************************************************************************)
(* The reply parsing of classify on its own: a request stands at the       *)
(* parsing step with an arbitrary reply of at most MaxReplyLen tokens.     *)
(***************************************************************************)
ReplyAlphabet ==
    { LBrace, RBrace, Comma, WsTok, Word, Scalar, Key("title"),
      Member("audience", JStr(<<"Retail">>)) }

AllReplies == UNION { [1..n -> ReplyAlphabet] : n \in 0..MaxReplyLen }

AtParse(reply) ==
    [IdleReq EXCEPT !.pc = "parse", !.action = "upload",
                    !.form = [NoForm EXCEPT !.api_key = <<"sk-1">>,
                                            !.pdf_url = <<"http://x/a.pdf">>],
                    !.source = [tag |-> "URL", name |-> <<"http://x/a.pdf">>],
                    !.text = <<"words">>, !.reply = reply]

InitClassify ==
    /\ store = {}
    /\ disk = {}
    /\ now = 0
    /\ nextId = 1
    /\ \E reply \in AllReplies : req = [r \in Clients |-> AtParse(reply)]
    /\ calls = [r \in Clients |-> {"fetch", "extract", "classify"}]
    /\ saved = [r \in Clients |-> {}]
    /\ deleted = {}

NextClassify == \E r \in Clients : ParseReply(r) \/ SaveWhitepaper(r)

SpecClassify == InitClassify /\ [][NextClassify]_vars

(***************************************************************************)
(* GET /: the listing (lines 682-684 and 747-755).  A query argument is    *)
(* given or absent; request.args.get supplies the default of an absent     *)
(* one.                                                                    *)
(***************************************************************************)
MaxRows == 2

Arg(v) == [given |-> TRUE, value |-> v]
NoArg == [given |-> FALSE, value |-> <<>>]
ArgGet(arg, default) == IF arg.given THEN arg.value ELSE default

FilterMainCategory(args) == Strip(ArgGet(args.filter_main_category, <<>>))
FilterIndustry(args) == Strip(ArgGet(args.filter_industry, <<>>))
SortOrder(args) ==
    LET sort_order == Strip(ArgGet(args.sort_order, <<"newest">>))
    IN  IF sort_order = <<>> THEN <<"newest">> ELSE sort_order

\* The listing with the industry filter left out.
FilteredByCategoryOnly(rows, args) ==
    IF FilterMainCategory(args) # <<>>
    THEN SelectSeq(rows, LAMBDA w : w.main_category = FilterMainCategory(args))
    ELSE rows

(***************************************************************************)
(* The two list comprehensions (lines 748-751).                            *)
(***************************************************************************)
Filtered(rows, args) ==
    LET byCategory ==
          IF FilterMainCategory(args) # <<>>
          THEN SelectSeq(rows, LAMBDA w : w.main_category = FilterMainCategory(args))
          ELSE rows
    IN  IF FilterIndustry(args) # <<>>
        THEN SelectSeq(byCategory, LAMBDA w : w.industry = FilterIndustry(args))
        ELSE byCategory

(***************************************************************************)
(* sorted(whitepapers, key=created_at, reverse=reverse) (line 755): the    *)
(* sort is stable in both directions, records with equal keys keep the     *)
(* order they came in.                                                     *)
(***************************************************************************)
InsertLast(sorted, x, reverse) ==
    LET before(e) == IF reverse THEN e.created_at >= x.created_at
                                ELSE e.created_at <= x.created_at
        k == Cardinality({ i \in 1..Len(sorted) : before(sorted[i]) })
    IN  SubSeq(sorted, 1, k) \o <<x>> \o SubSeq(sorted, k + 1, Len(sorted))

RECURSIVE Sorted(_, _)
Sorted(rows, reverse) ==
    IF rows = <<>> THEN <<>>
    ELSE InsertLast(Sorted(SubSeq(rows, 1, Len(rows) - 1), reverse),
                    rows[Len(rows)], reverse)

\* A sort that ignores the direction.
ListingAscending(rows, args) == Sorted(Filtered(rows, args), FALSE)

ListingOf(rows, args) ==
    LET reverse == (SortOrder(args) = <<"newest">>)
    IN  Sorted(Filtered(rows, args), reverse)

(***************************************************************************)
(* load_whitepapers (lines 540-561): SELECT without ORDER BY, the rows     *)
(* come in an order the database chooses.                                  *)
(***************************************************************************)
Orderings(S) ==
    { f \in [1..Cardinality(S) -> S] : \A i, j \in 1..Cardinality(S) : i # j => f[i] # f[j] }

GetReq(args) ==
    [pc |-> "load", action |-> "get", args |-> args, rows |-> <<>>, whitepapers |-> <<>>]

LoadWhitepapers(r) ==
    /\ req[r].pc = "load"
    /\ \E rows \in Orderings(store) :
         req' = [req EXCEPT ![r].pc = "render", ![r].rows = rows]
    /\ UNCHANGED <<store, disk, now, nextId, calls, saved, deleted>>

RenderListing(r) ==
    /\ req[r].pc = "render"
    /\ req' = [req EXCEPT ![r].pc = "rendered",
                          ![r].whitepapers = ListingOf(req[r].rows, req[r].args)]
    /\ UNCHANGED <<store, disk, now, nextId, calls, saved, deleted>>

(***************************************************************************)
(* The listing on its own: a GET request with any of the query arguments   *)
(* below, over any table of at most MaxRows rows.                          *)
(***************************************************************************)
ListingTimes == {0, 1}

ListingRow(i, c, ind, t) ==
    [id |-> i, title |-> <<"T">>, source |-> [tag |-> "URL", name |-> <<"http://x/a.pdf">>],
     main_category |-> c, industry |-> ind, short_summary |-> <<"s">>,
     file_path |-> NoPath, created_at |-> t]

ListingRows ==
    { ListingRow(i, c, ind, t) :
        i \in 1..MaxRows, c \in { <<"Retail">>, <<"Institutional">> },
        ind \in { <<"Energy">>, <<"Other">> }, t \in ListingTimes }

ListingStores ==
    { S \in SUBSET ListingRows :
        /\ Cardinality(S) <= MaxRows
        /\ \A v, w \in S : v.id = w.id => v = w }

CategoryArgs == { NoArg, Arg(<<>>), Arg(<<" ", "Retail", " ">>), Arg(<<"Institutional">>) }
IndustryArgs == { NoArg, Arg(<<"Energy">>), Arg(<<"Crypto">>) }
SortArgs == { NoArg, Arg(<<" ">>), Arg(<<"newest">>), Arg(<<"oldest">>), Arg(<<"latest">>) }

QueryArgs ==
    [filter_main_category : CategoryArgs, filter_industry : IndustryArgs,
     sort_order : SortArgs]

InitListing ==
    /\ store \in ListingStores
    /\ disk = {}
    /\ now = 0
    /\ nextId = MaxRows + 1
    /\ \E args \in QueryArgs : req = [r \in Clients |-> GetReq(args)]
    /\ calls = [r \in Clients |-> {}]
    /\ saved = [r \in Clients |-> {}]
    /\ deleted = {}

NextListing == \E r \in Clients : LoadWhitepapers(r) \/ RenderListing(r)

SpecListing == InitListing /\ [][NextListing]_vars

(***************************************************************************)
(* Two clients deleting at the same time.  No request coordinates with     *)
(* another: the steps of delete_whitepaper (lines 524-538) of the two      *)
(* requests interleave freely.  The file system is sound here: os.remove   *)
(* fails only with FileNotFoundError (an OSError), when the file is gone.  *)
(***************************************************************************)
RaceClients == {1, 2}

\* os.remove whose FileNotFoundError is not caught.
DelRemoveSoundRaises(r) ==
    /\ req[r].pc = "del_remove"
    /\ IF req[r].row.file_path \in disk
       THEN /\ disk' = disk \ {req[r].row.file_path}
            /\ req' = [req EXCEPT ![r].pc = "del_row", ![r].rm = "removed"]
       ELSE /\ disk' = disk
            /\ req' = [Fail(r, "Error deleting whitepaper: ", "FileNotFoundError", <<>>)
                         EXCEPT ![r].rm = "OSError"]
    /\ UNCHANGED <<store, now, nextId, calls, saved, deleted>>

DelRemoveSound(r) ==
    /\ req[r].pc = "del_remove"
    /\ IF req[r].row.file_path \in disk
       THEN /\ disk' = disk \ {req[r].row.file_path}
            /\ req' = [req EXCEPT ![r].pc = "del_row", ![r].rm = "removed"]
       ELSE /\ disk' = disk
            /\ req' = [req EXCEPT ![r].pc = "del_row", ![r].rm = "OSError"]
    /\ UNCHANGED <<store, now, nextId, calls, saved, deleted>>

StagedRow(i) ==
    [id |-> i, title |-> <<"T">>, source |-> [tag |-> "File", name |-> <<"a.pdf">>],
     main_category |-> <<"Retail">>, industry |-> <<"Other">>, short_summary |-> <<"s">>,
     file_path |-> [ts |-> i, name |-> <<"a.pdf">>], created_at |-> 0]

UrlRow(i) ==
    [id |-> i, title |-> <<"T">>, source |-> [tag |-> "URL", name |-> <<"http://x/a.pdf">>],
     main_category |-> <<"Retail">>, industry |-> <<"Other">>, short_summary |-> <<"s">>,
     file_path |-> NoPath, created_at |-> 0]

RaceStores ==
    { S \in SUBSET ({ StagedRow(i) : i \in 1..MaxId } \cup { UrlRow(i) : i \in 1..MaxId }) :
        \A v, w \in S : v.id = w.id => v = w }

InitDeleteRace ==
    /\ store \in RaceStores
    /\ disk = { w.file_path : w \in { v \in store : v.file_path # NoPath } }
    /\ now = 0
    /\ nextId = MaxId + 1
    /\ req = [r \in RaceClients |-> IdleReq]
    /\ calls = [r \in RaceClients |-> {}]
    /\ saved = [r \in RaceClients |-> {}]
    /\ deleted = {}

NextDeleteRace ==
    \E r \in RaceClients :
        \/ SubmitDelete(r)
        \/ DelSelect(r)
        \/ DelIsFile(r)
        \/ DelRemoveSound(r)
        \/ DelRow(r)

SpecDeleteRace == InitDeleteRace /\ [][NextDeleteRace]_vars

(***************************************************************************)
(* Vocabulary of the properties.                                           *)
(***************************************************************************)
Blank(s) == \A i \in 1..Len(s) : s[i] = " "

NoFileGiven(f) == ~f.present \/ f.filename = <<>>

Upload(r) == req[r].action = "upload"

Ended(r) == req[r].pc \in {"done", "failed"}

Persisted(r) == { w \in store : w.id \in saved[r] }

\* The trimmed value of a field of the object in the reply, as classify reads it.
ReplyField(reply, k) ==
    Strip(DictGet(JsonLoads(JsonStr(StripOf(reply, WsTok))).members, k, KeyDefault(k)).s)

\* The model has replied to request r (the call did not raise).
GotReply(r) ==
    Upload(r) /\ "classify" \in calls[r] /\ req[r].pc # "classify"
    /\ req[r].message.exc # "APIError"

ValidationMessages ==
    { "OpenAI API key is required.", "Please upload a PDF file or provide a PDF URL." }

(***************************************************************************)
(* C1.  Every persisted record has its main_category in MAIN_CATEGORIES    *)
(* and its industry in INDUSTRIES; a record persisted from a reply whose   *)
(* trimmed audience is outside the category set has main_category          *)
(* "Nondescript", and from a reply whose trimmed industry is outside the   *)
(* list has industry "Other".                                              *)
(***************************************************************************)
C1_ClosedEnumerations ==
    /\ \A w \in store : w.main_category \in MAIN_CATEGORIES /\ w.industry \in INDUSTRIES
    /\ \A r \in Requests : \A w \in Persisted(r) :
         /\ ReplyField(req[r].reply, "audience") \notin MAIN_CATEGORIES
              => w.main_category = <<"Nondescript">>
         /\ ReplyField(req[r].reply, "industry") \notin INDUSTRIES
              => w.industry = <<"Other">>

C1_Witness ==
    \E r \in Requests : \E w \in Persisted(r) :
        /\ ReplyField(req[r].reply, "audience") = <<"Professional">>
        /\ ReplyField(req[r].reply, "industry") = <<"Crypto">>
        /\ w.main_category = <<"Nondescript">>
        /\ w.industry = <<"Other">>

(***************************************************************************)
(* C2.  An upload whose key is non-empty, whose input is a file or a URL,  *)
(* whose PDF yields non-blank text and whose model reply is well-formed    *)
(* JSON persists exactly one new record.  Stated for the replies that are  *)
(* a JSON object, the shape the prompt asks for.                           *)
(***************************************************************************)
C2_ExactlyOneRecord ==
    \A r \in Requests :
        ( /\ GotReply(r) /\ Ended(r)
          /\ ~Blank(req[r].form.api_key)
          /\ ~Blank(req[r].text)
          /\ JsonLoads(req[r].reply).ok
          /\ JsonLoads(req[r].reply).isDict )
        => Cardinality(Persisted(r)) = 1

(***************************************************************************)
(* C3.  An upload that ends in failure has added no record and has left no *)
(* staged file behind.                                                     *)
(***************************************************************************)
C3_FailureLeavesNothing ==
    \A r \in Requests :
        (Upload(r) /\ req[r].pc = "failed")
        => /\ saved[r] = {}
           /\ req[r].file_path \notin disk

(***************************************************************************)
(* C4.  An upload with a blank API key, or with neither a file nor a URL,  *)
(* fails with a validation message and has staged no file, fetched         *)
(* nothing, extracted nothing, classified nothing and persisted nothing.   *)
(***************************************************************************)
InvalidEntry(r) ==
    \/ Blank(req[r].form.api_key)
    \/ NoFileGiven(req[r].form.pdf_file) /\ Blank(req[r].form.pdf_url)

C4_ValidationNoExternalAction ==
    \A r \in Requests :
        (Upload(r) /\ req[r].pc # "validate" /\ InvalidEntry(r))
        => /\ req[r].pc = "failed"
           /\ req[r].error
           /\ req[r].message.text \in ValidationMessages
           /\ calls[r] = {}
           /\ saved[r] = {}
           /\ req[r].file_path = NoPath

C4_Witness ==
    \E r \in Requests :
        /\ Upload(r) /\ req[r].pc = "failed"
        /\ req[r].form.api_key = <<" ">>
        /\ ~NoFileGiven(req[r].form.pdf_file)
        /\ req[r].message.text = "OpenAI API key is required."
        /\ calls[r] = {}

(***************************************************************************)
(* C5.  As claimed: a request stands past the entry guard only if its key  *)
(* is non-empty and exactly one of file and URL is supplied.               *)
(***************************************************************************)
PastGuard(r) == Upload(r) /\ req[r].pc \in {"stage", "fetch"}

C5_ExactlyOneInput ==
    \A r \in Requests :
        PastGuard(r)
        => /\ ~Blank(req[r].form.api_key)
           /\ NoFileGiven(req[r].form.pdf_file) # Blank(req[r].form.pdf_url)

(***************************************************************************)
(* C5, amended.  A request stands past the entry guard only if its key is  *)
(* non-empty and at least one of file and URL is supplied; it goes to      *)
(* staging exactly when a file is supplied (a URL given with it is not     *)
(* fetched) and to fetching otherwise.                                     *)
(***************************************************************************)
C5_AtLeastOneInput ==
    \A r \in Requests :
        PastGuard(r)
        => /\ ~Blank(req[r].form.api_key)
           /\ ~NoFileGiven(req[r].form.pdf_file) \/ ~Blank(req[r].form.pdf_url)
           /\ req[r].pc = "stage" <=> ~NoFileGiven(req[r].form.pdf_file)

C5_Witness ==
    \E r \in Requests :
        /\ Upload(r) /\ req[r].pc = "stage"
        /\ ~Blank(req[r].form.api_key)
        /\ ~NoFileGiven(req[r].form.pdf_file)
        /\ ~Blank(req[r].form.pdf_url)

(***************************************************************************)
(* C6.  If the extracted text is blank, the upload fails with the "Could   *)
(* not extract any text" message, the classifier has not been called in    *)
(* the request and no record is persisted.                                 *)
(***************************************************************************)
Extracted(r) ==
    Upload(r) /\ "extract" \in calls[r] /\ req[r].message.exc # "PDFSyntaxError"

C6_BlankTextSkipsClassifier ==
    \A r \in Requests :
        (Extracted(r) /\ Blank(req[r].text))
        => /\ req[r].pc = "failed"
           /\ req[r].error
           /\ req[r].message.text = "Could not extract any text from the PDF."
           /\ "classify" \notin calls[r]
           /\ saved[r] = {}

C6_Witness ==
    \E r \in Requests :
        /\ Extracted(r)
        /\ req[r].text = <<" ">>
        /\ req[r].pc = "failed"
        /\ "classify" \notin calls[r]

(***************************************************************************)
(* C7.  As claimed: whenever the reply is a valid JSON object with extra   *)
(* text before and/or after it, whatever that text is, the parse succeeds. *)
(***************************************************************************)
Parsed(r) == Upload(r) /\ req[r].out.exc # ""

Content(r) == StripOf(req[r].reply, WsTok)

ObjectAt(c, i, j) ==
    i <= j /\ c[i] = LBrace /\ c[j] = RBrace /\ JsonLoads(SubSeq(c, i, j)).ok

Without(s, c) == \A i \in 1..Len(s) : s[i] # c

C7_ArbitraryProse ==
    \A r \in Requests :
        Parsed(r) =>
          \A i, j \in 1..Len(Content(r)) :
              (ObjectAt(Content(r), i, j) /\ (i > 1 \/ j < Len(Content(r))))
              => req[r].out.exc # "ValueError"

(***************************************************************************)
(* C7, amended.  Whenever the reply is a valid JSON object with extra text *)
(* before and/or after it, the text before it holding no "{" and the text  *)
(* after it no "}", the parse succeeds and what is parsed is the object:   *)
(* the substring from the first "{" to the last "}".  When no "{" is       *)
(* followed by a "}", what is parsed is the whole (trimmed) reply.         *)
(***************************************************************************)
C7_BraceFreeProse ==
    \A r \in Requests :
        Parsed(r) =>
          LET c == Content(r)
          IN  /\ \A i, j \in 1..Len(c) :
                    ( /\ ObjectAt(c, i, j)
                      /\ i > 1 \/ j < Len(c)
                      /\ Without(SubSeq(c, 1, i - 1), LBrace)
                      /\ Without(SubSeq(c, j + 1, Len(c)), RBrace) )
                    => /\ req[r].out.exc # "ValueError"
                       /\ req[r].out.json_str = SubSeq(c, i, j)
              /\ (~\E i, j \in 1..Len(c) : i < j /\ c[i] = LBrace /\ c[j] = RBrace)
                    => req[r].out.json_str = c

C7_Witness ==
    \E r \in Requests :
        /\ Parsed(r)
        /\ req[r].reply = <<Word, LBrace, Member("audience", JStr(<<"Retail">>)), RBrace, Word>>
        /\ req[r].out.exc = "none"
        /\ req[r].out.json_str = <<LBrace, Member("audience", JStr(<<"Retail">>)), RBrace>>
        /\ req[r].pc = "persist"

(***************************************************************************)
(* C8.  A reply with no "{" and no "}" at all makes classify fail with the *)
(* format error that carries the raw reply; the error is shown to the user *)
(* and no record is persisted.                                             *)
(***************************************************************************)
C8_NoBracesFormatError ==
    \A r \in Requests :
        ( /\ GotReply(r) /\ req[r].pc # "parse"
          /\ Without(req[r].reply, LBrace) /\ Without(req[r].reply, RBrace) )
        => /\ req[r].pc = "failed"
           /\ req[r].error
           /\ req[r].message =
                [text |-> "Error: ", exc |-> "ValueError", raw |-> Content(r)]
           /\ saved[r] = {}

(***************************************************************************)
(* C9.  The DELETE of delete(id) removes exactly the rows with that id and *)
(* leaves every other row as it was; an id whose row was deleted is in no  *)
(* later state of the store; no step of a delete request for an id that is *)
(* not in the store changes the store or the file stage, and the request   *)
(* does not fail.                                                          *)
(***************************************************************************)
Delete(r) == req[r].action = "delete" /\ req[r].form.delete_id.isInt

C9_DeleteRemovesOnlyThatId ==
    [][ /\ \A r \in Requests :
             /\ (Delete(r) /\ req[r].pc = "del_row" /\ req'[r].pc = "done")
                  => /\ store' = { w \in store : w.id # DeleteId(r) }
                     /\ DeleteId(r) \notin { w.id : w \in store' }
             /\ (Delete(r) /\ req'[r] # req[r] /\ DeleteId(r) \notin Ids)
                  => /\ store' = store
                     /\ disk' = disk
                     /\ req'[r].pc # "failed"
        /\ deleted' \cap { w.id : w \in store' } = {} ]_vars

C9_Witness ==
    \E r \in Requests :
        /\ Delete(r) /\ req[r].pc = "done"
        /\ req[r].row.found
        /\ DeleteId(r) \in deleted
        /\ DeleteId(r) \notin Ids
        /\ store # {}

(***************************************************************************)
(* C10.  A delete request for a record whose file_path is set ends without *)
(* an error and with the record gone, also when the staged file was        *)
(* already missing or its removal raised OSError.                          *)
(***************************************************************************)
C10_DeleteFailSoft ==
    \A r \in Requests :
        (Delete(r) /\ Ended(r) /\ req[r].row.found /\ req[r].row.file_path # NoPath)
        => /\ req[r].pc = "done"
           /\ ~req[r].error
           /\ req[r].rm \in {"removed", "missing", "OSError"}
           /\ DeleteId(r) \notin Ids

C10_Witness ==
    \E r \in Requests :
        /\ Delete(r) /\ req[r].pc = "done"
        /\ req[r].rm = "OSError"
        /\ req[r].row.file_path \in disk
        /\ DeleteId(r) \notin Ids
        /\ ~req[r].error

\* The other soft failure: the file was already gone (two records shared it).
C10_WitnessMissing ==
    \E r \in Requests :
        /\ Delete(r) /\ req[r].pc = "done"
        /\ req[r].rm = "missing"
        /\ DeleteId(r) \notin Ids

(***************************************************************************)
(* C11.  Any two distinct file uploads are staged at different paths: no   *)
(* two records share a file_path.                                          *)
(***************************************************************************)
C11_UniqueStagedPaths ==
    \A v, w \in store :
        (v.id # w.id /\ v.file_path # NoPath) => v.file_path # w.file_path

(***************************************************************************)
(* C14.  A record has a file_path iff it was ingested from an uploaded     *)
(* file (source "File: ..."); a record ingested from a URL has none.       *)
(***************************************************************************)
C14_FilePathIffFileSource ==
    \A w \in store :
        /\ w.source.tag \in {"File", "URL"}
        /\ w.file_path # NoPath <=> w.source.tag = "File"
        /\ w.source.tag = "URL" => w.file_path = NoPath

C14_Witness ==
    \E v, w \in store :
        /\ v.source.tag = "File" /\ v.file_path # NoPath
        /\ w.source.tag = "URL" /\ w.file_path = NoPath

(***************************************************************************)
(* C15.  An upload request moves validate -> stage or fetch -> extract ->  *)
(* classify -> persist -> done; a step is entered only after the steps     *)
(* before it have succeeded; a failed request takes no further step of the *)
(* pipeline: it changes neither the store nor the file stage and makes no  *)
(* external call before its response ends it.                              *)
(***************************************************************************)
UploadOrder ==
    { <<"validate", "stage">>, <<"validate", "fetch">>, <<"validate", "failed">>,
      <<"stage", "extract">>,
      <<"fetch", "extract">>, <<"fetch", "failed">>,
      <<"extract", "classify">>, <<"extract", "failed">>,
      <<"classify", "parse">>, <<"classify", "failed">>,
      <<"parse", "persist">>, <<"parse", "failed">>,
      <<"persist", "done">>,
      <<"done", "idle">>, <<"failed", "idle">> }

FetchErrors == {"HTTPError", "ConnectionError"}

StepsAfterSuccess(r) ==
    /\ req[r].pc \in {"stage", "fetch"}
         => calls[r] = {} /\ ~req[r].error
    /\ req[r].pc = "extract"
         => calls[r] \in {{"stage"}, {"fetch"}} /\ ~req[r].error
    /\ req[r].pc \in {"classify", "parse"}
         => /\ "extract" \in calls[r] /\ ~Blank(req[r].text) /\ ~req[r].error
            /\ req[r].pc = "parse" <=> "classify" \in calls[r]
    /\ req[r].pc = "persist"
         => "classify" \in calls[r] /\ req[r].out.exc = "none" /\ ~req[r].error
    /\ req[r].pc = "done"
         => calls[r] \in {{"stage", "extract", "classify", "save"},
                          {"fetch", "extract", "classify", "save"}}
    /\ "save" \in calls[r] => req[r].pc = "done"
    /\ req[r].pc = "failed"
         => /\ req[r].error
            /\ "save" \notin calls[r]
            /\ req[r].message.exc \in FetchErrors => "extract" \notin calls[r]
            /\ "extract" \in calls[r] /\ req[r].out.exc = "" /\ req[r].message.exc # "APIError"
                 => "classify" \notin calls[r]

C15_PipelineOrder ==
    /\ [](\A r \in Requests : Upload(r) => StepsAfterSuccess(r))
    /\ [][ \A r \in Requests :
             (Upload(r) /\ req'[r].pc # req[r].pc)
             => /\ <<req[r].pc, req'[r].pc>> \in UploadOrder
                /\ req[r].pc = "failed"
                     => store' = store /\ disk' = disk /\ calls'[r] = {} ]_vars

C15_Witness ==
    \E r \in Requests :
        /\ Upload(r) /\ req[r].pc = "done"
        /\ calls[r] = {"stage", "extract", "classify", "save"}
        /\ Cardinality(Persisted(r)) = 1

C15_WitnessFailed ==
    \E r \in Requests :
        /\ Upload(r) /\ req[r].pc = "failed"
        /\ req[r].message.exc = "HTTPError"
        /\ calls[r] = {"fetch"}

(***************************************************************************)
(* C12.  The listing holds exactly the records that equal the category     *)
(* filter and the industry filter the request reads (each trimmed), each   *)
(* record once; a filter that is absent or empty passes every record.      *)
(***************************************************************************)
Rendered(r) == req[r].action = "get" /\ req[r].pc = "rendered"

Matches(w, args) ==
    /\ FilterMainCategory(args) = <<>> \/ w.main_category = FilterMainCategory(args)
    /\ FilterIndustry(args) = <<>> \/ w.industry = FilterIndustry(args)

Elements(q) == { q[i] : i \in 1..Len(q) }

C12_ListingMatchesFilters ==
    \A r \in Requests :
        Rendered(r) =>
          /\ Elements(req[r].whitepapers) = { w \in store : Matches(w, req[r].args) }
          /\ Len(req[r].whitepapers) = Cardinality(Elements(req[r].whitepapers))
          /\ ~req[r].args.filter_main_category.given /\ ~req[r].args.filter_industry.given
               => Elements(req[r].whitepapers) = store

C12_Witness ==
    \E r \in Requests :
        /\ Rendered(r)
        /\ req[r].args.filter_main_category = Arg(<<" ", "Retail", " ">>)
        /\ req[r].args.filter_industry = Arg(<<"Energy">>)
        /\ Len(req[r].whitepapers) = 1
        /\ \E w \in store : w.main_category = <<"Retail">> /\ w.industry = <<"Other">>

(***************************************************************************)
(* C13.  As claimed: for every table, the listing sorted "newest" is the   *)
(* reverse of the listing sorted "oldest" under the same filters.          *)
(***************************************************************************)
Reverse(q) == [i \in 1..Len(q) |-> q[Len(q) + 1 - i]]

Oldest(args) == [args EXCEPT !.sort_order = Arg(<<"oldest">>)]

C13_NewestReversesOldest ==
    \A r \in Requests :
        (Rendered(r) /\ SortOrder(req[r].args) = <<"newest">>)
        => req[r].whitepapers = Reverse(ListingOf(req[r].rows, Oldest(req[r].args)))

(***************************************************************************)
(* C13, amended.  For every table in which the listed records have         *)
(* pairwise different created_at strings, the listing sorted "newest" is   *)
(* the reverse of the listing sorted "oldest" under the same filters, in   *)
(* whatever order the rows are loaded for either listing.                  *)
(***************************************************************************)
DistinctTimes(S) == \A v, w \in S : v # w => v.created_at # w.created_at

C13_NewestReversesOldestNoTies ==
    \A r \in Requests :
        ( /\ Rendered(r) /\ SortOrder(req[r].args) = <<"newest">>
          /\ DistinctTimes({ w \in store : Matches(w, req[r].args) }) )
        => \A rows \in Orderings(store) :
               req[r].whitepapers = Reverse(ListingOf(rows, Oldest(req[r].args)))

C13_Witness ==
    \E r \in Requests :
        /\ Rendered(r) /\ SortOrder(req[r].args) = <<"newest">>
        /\ Len(req[r].whitepapers) = 2
        /\ req[r].whitepapers[1].created_at > req[r].whitepapers[2].created_at
        /\ \E rows \in Orderings(store) :
               ListingOf(rows, Oldest(req[r].args)) = Reverse(req[r].whitepapers)

(***************************************************************************)
(* C16.  Two delete requests for the same id, whose record has a staged    *)
(* file, under every interleaving of their steps: neither raises, and      *)
(* once both have completed the record is absent from the store and the    *)
(* file is absent from disk.                                               *)
(***************************************************************************)
SameDelete(r, q) ==
    /\ r # q /\ Delete(r) /\ Delete(q)
    /\ DeleteId(r) = DeleteId(q)
    /\ req[r].row.found /\ req[r].row.file_path # NoPath

C16_WitnessLateSelect ==
    \E r, q \in Requests :
        /\ SameDelete(r, q)
        /\ req[r].pc = "done" /\ req[q].pc = "done"
        /\ req[r].rm = "removed" /\ req[q].row = NoRow

====
